---- MODULE Spec2Model ----
(***************************************************************************)
(* Model of the asynchronous task engine (TaskManager + TaskProcessor)     *)
(* and of the per-session daily quota ledger (MemoryUsageDB) together with *)
(* the generation controller that consults it.                             *)
(*                                                                         *)
(* JavaScript runs one callback at a time: every action below is the code  *)
(* that runs between two suspension points (await, timer, I/O completion). *)
(***************************************************************************)
EXTENDS Integers, Sequences, FiniteSets, TLC

\* ------------------------------------------------------------------ bounds
\* Number of task ids that can ever be created in a run.
MaxTasks == 2

\* Number of generation requests in flight in a run.
MaxRequests == 2

\* Clock ticks in the 24 hours a terminal task is kept.
DayTicks == 1

\* Number of source images of a composition request.
MaxImages == 2

\* Requests one client sends beyond the limit of its window.
MaxOverLimit == 2

\* Number of requests the session-managing worker proxies at a time.
MaxProxied == 1

\* ------------------------------------------------------- program constants
\* MemoryUsageDB.DAILY_LIMITS
LimitImage == 50
LimitVideo == 10
LimitAvatar == 5
\* TaskPriority enum.
PriorityLow == 1
PriorityNormal == 5
PriorityHigh == 10
\* parseInt(process.env.TASK_MAX_CONCURRENT || '10', 10)
DefaultMaxConcurrent == 10
\* setMaxConcurrentTasks clamps to [MinConcurrent, MaxConcurrentCap].
MinConcurrent == 1
MaxConcurrentCap == 10
\* progress values written by the worker.
ProgressStarted == 10
ProgressAlmostDone == 90

\* ------------------------------------------------------------ enumerations
TaskTypes == {"image_generation", "image_composition", "video_generation"}
Pending == "pending"
Running == "running"
Completed == "completed"
Failed == "failed"
Cancelled == "cancelled"
\* the task types submitted in a run (the composition type is scheduled exactly
\* like image_generation: same priority, same timeout).
SubmittedTypes == {"image_generation", "video_generation"}
TaskStatuses == {Pending, Running, Completed, Failed, Cancelled}
TerminalStatuses == {Completed, Failed, Cancelled}

\* JavaScript `undefined` for string-valued fields, and for task.progress.
Undefined == "undefined"
NoProgress == -1

\* error message of the timeout callback, and the messages a worker's
\* controller rejects with; the list of URLs a controller resolves with.
TimeoutMessage == "task execution timed out"
WorkerMessages == {"generation failed"}
WorkerResults == {"urls"}

\* values TASK_MAX_CONCURRENT is started with, and arguments given to
\* setMaxConcurrentTasks.
EnvMaxConcurrent == {1, 2, DefaultMaxConcurrent}
SetMaxArgs == {0, 1, 2, 11}

\* JavaScript truthiness of a string-valued optional field.
Truthy(v) == v # Undefined /\ v # ""

VARIABLES
    tasks,               \* TaskManager.tasks: id -> Task
    taskTimeouts,        \* TaskManager.taskTimeouts: ids with an armed timer
    nextId,              \* ids handed out so far (uuidv4 is fresh every time)
    runningTasks,        \* TaskProcessor.runningTasks
    maxConcurrentTasks,  \* TaskProcessor.maxConcurrentTasks
    worker,              \* id -> position of the executeTask promise
    started,             \* history: how often executeTask was called per id
    cancelledPending,    \* history: ids cancelled while still pending
    cancelledRunning     \* history: ids cancelled while their worker was executing

taskVars == <<tasks, taskTimeouts, nextId, runningTasks, maxConcurrentTasks,
              worker, started, cancelledPending, cancelledRunning>>

VARIABLES
    data,        \* MemoryUsageDB.data: key -> usage row (the live map)
    loaded,      \* whether the loadData() started by the constructor has ended
    file,        \* content of data/session_usage.json (when fileExists)
    fileExists,
    req,         \* request -> position and locals of one generateImages call
    cleanup,     \* position of the cleanupOldRecords call in flight
    atLimit      \* history: requests that began with the live count at the limit

ledgerVars == <<data, loaded, file, fileExists, req, cleanup, atLimit>>

\* the image controller: one composition request and its uploads.
VARIABLES
    composition,
    uploads

controllerVars == <<composition, uploads>>

\* the Cloudflare worker in front of the service: the rate limiter's entry of
\* one client (requestCounts) and what that client was last answered.
VARIABLES
    requestCounts,
    client

limiterVars == <<requestCounts, client>>

\* the worker's health table of the backend servers (serverHealth) and the
\* one client request it is forwarding.
VARIABLES
    serverHealth,
    proxy

proxyVars == <<serverHealth, proxy>>

\* the session manager and one session of its pool: the session's rows of
\* today in session_usage, the KV entry usage:<session>:<today>, the requests
\* being proxied, and (history) how often the session has served each
\* service today.
VARIABLES
    sessionUsage,
    usageCache,
    proxied,
    used

sessionVars == <<sessionUsage, usageCache, proxied, used>>

edgeVars == <<limiterVars, proxyVars, sessionVars>>

vars == <<taskVars, ledgerVars, controllerVars, edgeVars>>

Ids == 1..MaxTasks

\* ------------------------------------------------------------ TaskManager

PriorityOf(type) ==
    IF type = "video_generation" THEN PriorityHigh ELSE PriorityNormal

\* startedAt / completedAt not set (times are ordinals: only their order is
\* modelled).
NoTime == 0

\* updatedAge: ticks since updatedAt; terminalAge: ticks since the task
\* entered a terminal state (both stop at MaxAge, past the 24 hours).
MaxAge == DayTicks + 1

NewTask(type) ==
    [type |-> type, status |-> Pending, priority |-> PriorityOf(type),
     progress |-> NoProgress, result |-> Undefined, error |-> Undefined,
     startedAt |-> NoTime, completedAt |-> NoTime,
     updatedAge |-> 0, terminalAge |-> 0]

\* new Date() in updateTaskStatus: later than every time stored in the task.
Now(task) ==
    1 + (IF task.startedAt >= task.completedAt
         THEN task.startedAt ELSE task.completedAt)

NoExtra == [result |-> Undefined, error |-> Undefined, progress |-> NoProgress]

\* mutant of UpdateTaskStatus: the result of the extra argument is dropped.
UpdateTaskStatusDropsResult(T, id, status, extra) ==
    IF id \notin DOMAIN T THEN T
    ELSE [T EXCEPT ![id] =
            [@ EXCEPT !.status = status,
                      !.error = IF Truthy(extra.error) THEN extra.error ELSE @,
                      !.progress = IF extra.progress # NoProgress
                                   THEN extra.progress ELSE @,
                      !.startedAt = IF status = Running /\ @ = NoTime
                                    THEN Now(T[id]) ELSE @,
                      !.completedAt = IF status \in {Completed, Failed}
                                      THEN Now(T[id]) ELSE @]]

\* mutant of UpdateTaskStatus: the two time stamps are written to each
\* other's field.
UpdateTaskStatusSwapsStamps(T, id, status, extra) ==
    IF id \notin DOMAIN T THEN T
    ELSE [T EXCEPT ![id] =
            [@ EXCEPT !.status = status,
                      !.result = IF Truthy(extra.result) THEN extra.result ELSE @,
                      !.error = IF Truthy(extra.error) THEN extra.error ELSE @,
                      !.progress = IF extra.progress # NoProgress
                                   THEN extra.progress ELSE @,
                      !.completedAt = IF status = Running /\ @ = NoTime
                                      THEN Now(T[id]) ELSE @,
                      !.startedAt = IF status \in {Completed, Failed}
                                    THEN Now(T[id]) ELSE @]]

\* updateTaskStatus: the task map after the call.
UpdateTaskStatus(T, id, status, extra) ==
    IF id \notin DOMAIN T THEN T
    ELSE [T EXCEPT ![id] =
            [@ EXCEPT !.status = status,
                      !.result = IF Truthy(extra.result) THEN extra.result ELSE @,
                      !.error = IF Truthy(extra.error) THEN extra.error ELSE @,
                      !.progress = IF extra.progress # NoProgress
                                   THEN extra.progress ELSE @,
                      !.startedAt = IF status = Running /\ @ = NoTime
                                    THEN Now(T[id]) ELSE @,
                      !.completedAt = IF status \in {Completed, Failed}
                                      THEN Now(T[id]) ELSE @,
                      !.updatedAge = 0,
                      !.terminalAge = IF /\ status \in TerminalStatuses
                                         /\ T[id].status \in TerminalStatuses
                                      THEN @ ELSE 0]]

\* updateTaskStatus: the timer map after the call.
ClearTimeoutOnUpdate(T, TO, id, status) ==
    IF id \in DOMAIN T /\ status \in {Completed, Failed} THEN TO \ {id} ELSE TO

\* ids of the task map in insertion order (ids are handed out increasing).
IdsInOrder(S) ==
    IF S = {} THEN <<>>
    ELSE SelectSeq([i \in 1..(CHOOSE x \in S : \A y \in S : y <= x) |-> i],
                   LAMBDA i : i \in S)

\* mutant of PendingWithPriority: cancelled tasks pass the filter too.
PendingOrCancelledWithPriority(T, p) ==
    SelectSeq(IdsInOrder(DOMAIN T),
              LAMBDA id : T[id].status \in {Pending, Cancelled} /\ T[id].priority = p)

\* getPendingTasks: filter pending, stable sort by priority descending.
PendingWithPriority(T, p) ==
    SelectSeq(IdsInOrder(DOMAIN T),
              LAMBDA id : T[id].status = Pending /\ T[id].priority = p)

\* mutant of GetPendingTasks: the pending tasks in insertion order, unsorted.
GetPendingTasksUnsorted(T) ==
    SelectSeq(IdsInOrder(DOMAIN T), LAMBDA id : T[id].status = Pending)

GetPendingTasks(T) ==
    PendingWithPriority(T, PriorityHigh) \o PendingWithPriority(T, PriorityNormal)
        \o PendingWithPriority(T, PriorityLow)

Min(a, b) == IF a <= b THEN a ELSE b

TaskInit ==
    /\ tasks = <<>>
    /\ taskTimeouts = {}
    /\ nextId = 1
    /\ runningTasks = {}
    /\ maxConcurrentTasks \in EnvMaxConcurrent
    /\ worker = [i \in Ids |-> "none"]
    /\ started = [i \in Ids |-> 0]
    /\ cancelledPending = {}
    /\ cancelledRunning = {}

\* submit*Task -> createTask
CreateTask(type) ==
    /\ nextId <= MaxTasks
    /\ tasks' = (nextId :> NewTask(type)) @@ tasks
    /\ nextId' = nextId + 1
    /\ UNCHANGED <<taskTimeouts, runningTasks, maxConcurrentTasks, worker,
                   started, cancelledPending, cancelledRunning, ledgerVars, controllerVars, edgeVars>>

\* ---------------------------------------------------------- TaskProcessor

\* executeTask up to its first await: status running, timeout armed, the
\* process* method sets progress 10 and calls the controller.
ExecuteTaskStart(st, id) ==
    LET T1 == UpdateTaskStatus(st.tasks, id, Running, NoExtra)
        TO1 == ClearTimeoutOnUpdate(st.tasks, st.timeouts, id, Running) \cup {id}
        T2 == UpdateTaskStatus(T1, id, Running,
                               [NoExtra EXCEPT !.progress = ProgressStarted])
    IN [tasks |-> T2,
        timeouts |-> ClearTimeoutOnUpdate(T1, TO1, id, Running),
        running |-> st.running \cup {id},
        worker |-> [st.worker EXCEPT ![id] = "active"],
        started |-> [st.started EXCEPT ![id] = @ + 1]]

\* the for loop of processPendingTasks over tasksToStart.
RECURSIVE StartAll(_, _)
StartAll(toStart, st) ==
    IF toStart = <<>> THEN st
    ELSE StartAll(Tail(toStart), ExecuteTaskStart(st, Head(toStart)))

\* mutant of TasksToStart: every available task is started, whatever the
\* number of free slots.
TasksToStartAllAvailable(T, running, max) ==
    SelectSeq(GetPendingTasks(T), LAMBDA id : id \notin running)

\* mutant of TasksToStart: failed tasks are taken up again.
TasksToStartRetriesFailed(T, running, max) ==
    LET retried == SelectSeq(IdsInOrder(DOMAIN T),
                             LAMBDA id : T[id].status \in {Pending, Failed})
        availableTasks == SelectSeq(retried, LAMBDA id : id \notin running)
        slotsAvailable == max - Cardinality(running)
    IN IF Cardinality(running) >= max \/ availableTasks = <<>>
       THEN <<>>
       ELSE SubSeq(availableTasks, 1, Min(slotsAvailable, Len(availableTasks)))

\* tasksToStart of one tick.
TasksToStart(T, running, max) ==
    LET pendingTasks == GetPendingTasks(T)
        availableTasks == SelectSeq(pendingTasks, LAMBDA id : id \notin running)
        slotsAvailable == max - Cardinality(running)
    IN IF Cardinality(running) >= max \/ availableTasks = <<>>
       THEN <<>>
       ELSE SubSeq(availableTasks, 1, Min(slotsAvailable, Len(availableTasks)))

\* one tick of the setInterval of startProcessing.
ProcessPendingTasks ==
    \E tasksToStart \in {TasksToStart(tasks, runningTasks, maxConcurrentTasks)} :
    \E st \in {StartAll(tasksToStart,
                        [tasks |-> tasks, timeouts |-> taskTimeouts,
                         running |-> runningTasks, worker |-> worker,
                         started |-> started])} :
       /\ tasks' = st.tasks
       /\ taskTimeouts' = st.timeouts
       /\ runningTasks' = st.running
       /\ worker' = st.worker
       /\ started' = st.started
       /\ UNCHANGED <<nextId, maxConcurrentTasks, cancelledPending,
                      cancelledRunning, ledgerVars, controllerVars, edgeVars>>

\* mutant of WorkerSucceed: the finally block does not free the slot.
WorkerSucceedKeepsSlot(id, res) ==
    /\ worker[id] = "active"
    /\ LET T1 == UpdateTaskStatus(tasks, id, Running,
                                  [NoExtra EXCEPT !.progress = ProgressAlmostDone])
           TO1 == ClearTimeoutOnUpdate(tasks, taskTimeouts, id, Running)
       IN /\ tasks' = UpdateTaskStatus(T1, id, Completed,
                                       [NoExtra EXCEPT !.result = res])
          /\ taskTimeouts' = ClearTimeoutOnUpdate(T1, TO1, id, Completed)
    /\ worker' = [worker EXCEPT ![id] = "exited"]
    /\ UNCHANGED <<nextId, runningTasks, maxConcurrentTasks, started,
                   cancelledPending, cancelledRunning, ledgerVars, controllerVars, edgeVars>>

\* the controller resolved: progress 90, completed with the result, and the
\* finally block removes the id from the running set.
WorkerSucceed(id, res) ==
    /\ worker[id] = "active"
    /\ LET T1 == UpdateTaskStatus(tasks, id, Running,
                                  [NoExtra EXCEPT !.progress = ProgressAlmostDone])
           TO1 == ClearTimeoutOnUpdate(tasks, taskTimeouts, id, Running)
       IN /\ tasks' = UpdateTaskStatus(T1, id, Completed,
                                       [NoExtra EXCEPT !.result = res])
          /\ taskTimeouts' = ClearTimeoutOnUpdate(T1, TO1, id, Completed)
    /\ runningTasks' = runningTasks \ {id}
    /\ worker' = [worker EXCEPT ![id] = "exited"]
    /\ UNCHANGED <<nextId, maxConcurrentTasks, started, cancelledPending,
                   cancelledRunning, ledgerVars, controllerVars, edgeVars>>

\* mutant of WorkerFail: the failure also writes progress 0.
WorkerFailResetsProgress(id, msg) ==
    /\ worker[id] = "active"
    /\ tasks' = UpdateTaskStatus(tasks, id, Failed,
                                 [NoExtra EXCEPT !.error = msg, !.progress = 0])
    /\ taskTimeouts' = ClearTimeoutOnUpdate(tasks, taskTimeouts, id, Failed)
    /\ runningTasks' = runningTasks \ {id}
    /\ worker' = [worker EXCEPT ![id] = "exited"]
    /\ UNCHANGED <<nextId, maxConcurrentTasks, started, cancelledPending,
                   cancelledRunning, ledgerVars, controllerVars, edgeVars>>

\* mutant of WorkerFail: the id stays in the running set after the failure.
WorkerFailKeepsSlot(id, msg) ==
    /\ worker[id] = "active"
    /\ tasks' = UpdateTaskStatus(tasks, id, Failed, [NoExtra EXCEPT !.error = msg])
    /\ taskTimeouts' = ClearTimeoutOnUpdate(tasks, taskTimeouts, id, Failed)
    /\ worker' = [worker EXCEPT ![id] = "exited"]
    /\ UNCHANGED <<nextId, runningTasks, maxConcurrentTasks, started,
                   cancelledPending, cancelledRunning, ledgerVars, controllerVars, edgeVars>>

\* the controller rejected: failed with the message, id leaves the running set.
WorkerFail(id, msg) ==
    /\ worker[id] = "active"
    /\ tasks' = UpdateTaskStatus(tasks, id, Failed, [NoExtra EXCEPT !.error = msg])
    /\ taskTimeouts' = ClearTimeoutOnUpdate(tasks, taskTimeouts, id, Failed)
    /\ runningTasks' = runningTasks \ {id}
    /\ worker' = [worker EXCEPT ![id] = "exited"]
    /\ UNCHANGED <<nextId, maxConcurrentTasks, started, cancelledPending,
                   cancelledRunning, ledgerVars, controllerVars, edgeVars>>

\* the controller's promise never settles (an upstream call that hangs).
WorkerHang(id) ==
    /\ worker[id] = "active"
    /\ worker' = [worker EXCEPT ![id] = "hung"]
    /\ UNCHANGED <<tasks, taskTimeouts, nextId, runningTasks, maxConcurrentTasks,
                   started, cancelledPending, cancelledRunning, ledgerVars, controllerVars, edgeVars>>

\* mutant of TimeoutFires: the callback passes no error message.
TimeoutFiresWithoutError(id) ==
    /\ id \in taskTimeouts
    /\ tasks' = UpdateTaskStatus(tasks, id, Failed, NoExtra)
    /\ taskTimeouts' = ClearTimeoutOnUpdate(tasks, taskTimeouts, id, Failed) \ {id}
    /\ UNCHANGED <<nextId, runningTasks, maxConcurrentTasks, worker, started,
                   cancelledPending, cancelledRunning, ledgerVars, controllerVars, edgeVars>>

\* the setTimeout callback of setTaskTimeout runs.
TimeoutFires(id) ==
    /\ id \in taskTimeouts
    /\ tasks' = UpdateTaskStatus(tasks, id, Failed,
                                 [NoExtra EXCEPT !.error = TimeoutMessage])
    /\ taskTimeouts' = ClearTimeoutOnUpdate(tasks, taskTimeouts, id, Failed) \ {id}
    /\ UNCHANGED <<nextId, runningTasks, maxConcurrentTasks, worker, started,
                   cancelledPending, cancelledRunning, ledgerVars, controllerVars, edgeVars>>

\* TaskManager.cancelTask: whether the call changes the task.
CancelAllowed(T, id) ==
    id \in DOMAIN T /\ T[id].status \notin {Completed, Failed}

\* DELETE /tasks/:id/cancel -> cancelTask (controller, then TaskManager).
CancelTask(id) ==
    /\ id \in DOMAIN tasks
    /\ IF CancelAllowed(tasks, id)
       THEN /\ tasks' = UpdateTaskStatus(tasks, id, Cancelled, NoExtra)
            /\ taskTimeouts' = ClearTimeoutOnUpdate(tasks, taskTimeouts, id, Cancelled)
            /\ cancelledPending' =
                 IF tasks[id].status = Pending
                 THEN cancelledPending \cup {id} ELSE cancelledPending
            /\ cancelledRunning' =
                 IF tasks[id].status = Running /\ worker[id] \in {"active", "hung"}
                 THEN cancelledRunning \cup {id} ELSE cancelledRunning
       ELSE UNCHANGED <<tasks, taskTimeouts, cancelledPending, cancelledRunning>>
    /\ UNCHANGED <<nextId, runningTasks, maxConcurrentTasks, worker, started, ledgerVars, controllerVars, edgeVars>>

\* mutant of StoreAfterDelete: every task with the status of the deleted one
\* leaves the store.
StoreAfterDeleteSweeps(T, id) ==
    [j \in {k \in DOMAIN T : T[k].status # T[id].status} |-> T[j]]

\* TaskManager.deleteTask: the store after the call.
StoreAfterDelete(T, id) == [j \in DOMAIN T \ {id} |-> T[j]]

\* getTaskStats: number of tasks per status.
GetTaskStats(T) ==
    [s \in TaskStatuses |-> Cardinality({id \in DOMAIN T : T[id].status = s})]

\* mutant of DeleteTask: TaskManager.deleteTask without the controller's guard.
DeleteTaskUnguarded(id) ==
    /\ id \in DOMAIN tasks
    /\ tasks' = [j \in DOMAIN tasks \ {id} |-> tasks[j]]
    /\ taskTimeouts' = taskTimeouts \ {id}
    /\ UNCHANGED <<nextId, runningTasks, maxConcurrentTasks, worker, started,
                   cancelledPending, cancelledRunning, ledgerVars, controllerVars, edgeVars>>

\* DELETE /tasks/:id -> deleteTask (controller guard, then TaskManager).
DeleteTask(id) ==
    /\ id \in DOMAIN tasks
    /\ IF tasks[id].status \in {Pending, Running}
       THEN UNCHANGED <<tasks, taskTimeouts>>
       ELSE /\ tasks' = StoreAfterDelete(tasks, id)
            /\ taskTimeouts' = taskTimeouts \ {id}
    /\ UNCHANGED <<nextId, runningTasks, maxConcurrentTasks, worker, started,
                   cancelledPending, cancelledRunning, ledgerVars, controllerVars, edgeVars>>

\* the clock advances by one tick.
TimePasses ==
    /\ \E id \in DOMAIN tasks : tasks[id].updatedAge < MaxAge
    /\ tasks' = [id \in DOMAIN tasks |->
                   [tasks[id] EXCEPT
                       !.updatedAge = Min(@ + 1, MaxAge),
                       !.terminalAge = IF tasks[id].status \in TerminalStatuses
                                       THEN Min(@ + 1, MaxAge) ELSE @]]
    /\ UNCHANGED <<taskTimeouts, nextId, runningTasks, maxConcurrentTasks, worker,
                   started, cancelledPending, cancelledRunning, ledgerVars,
                   controllerVars, edgeVars>>

\* mutant of Expired: the status of the task is not looked at.
ExpiredWhateverStatus(task) ==
    task.updatedAge > DayTicks

\* cleanupExpiredTasks: completed, failed or cancelled, and
\* updatedAt < now - 24 h.
Expired(task) ==
    /\ task.status \in {Completed, Failed, Cancelled}
    /\ task.updatedAge > DayTicks

\* the setInterval callback of the TaskManager constructor (every 5 minutes).
CleanupExpiredTasks ==
    /\ tasks' = [id \in {k \in DOMAIN tasks : ~Expired(tasks[k])} |-> tasks[id]]
    /\ UNCHANGED <<taskTimeouts, nextId, runningTasks, maxConcurrentTasks, worker,
                   started, cancelledPending, cancelledRunning, ledgerVars,
                   controllerVars, edgeVars>>

\* GET /tasks/:id/result -> getTaskResult: the exception thrown ("none" when
\* the call returns) and the payload returned.
NotFound == "API_TASK_NOT_FOUND"
NotCompleted == "API_TASK_NOT_COMPLETED"

GetTaskResult(T, id) ==
    IF id \notin DOMAIN T
    THEN [throws |-> NotFound, status |-> Undefined,
          result |-> Undefined, error |-> Undefined]
    ELSE IF T[id].status \in {Pending, Running}
    THEN [throws |-> NotCompleted, status |-> Undefined,
          result |-> Undefined, error |-> Undefined]
    ELSE IF T[id].status = Failed
    THEN [throws |-> "none", status |-> T[id].status,
          result |-> Undefined, error |-> T[id].error]
    ELSE [throws |-> "none", status |-> T[id].status,
          result |-> T[id].result, error |-> Undefined]

\* Math.max(1, Math.min(10, max))
ClampConcurrent(max) ==
    IF max > MaxConcurrentCap THEN MaxConcurrentCap
    ELSE IF max < MinConcurrent THEN MinConcurrent ELSE max

SetMaxConcurrentTasks(max) ==
    /\ maxConcurrentTasks' = ClampConcurrent(max)
    /\ UNCHANGED <<tasks, taskTimeouts, nextId, runningTasks, worker, started,
                   cancelledPending, cancelledRunning, ledgerVars, controllerVars, edgeVars>>

TaskNext ==
    \/ \E type \in SubmittedTypes : CreateTask(type)
    \/ ProcessPendingTasks
    \/ \E id \in Ids, res \in WorkerResults : WorkerSucceed(id, res)
    \/ \E id \in Ids, msg \in WorkerMessages : WorkerFail(id, msg)
    \/ \E id \in Ids : WorkerHang(id)
    \/ \E id \in Ids : TimeoutFires(id)
    \/ \E id \in Ids : CancelTask(id)
    \/ \E id \in Ids : DeleteTask(id)
    \/ \E max \in SetMaxArgs : SetMaxConcurrentTasks(max)

\* ---------------------------------------------------------- MemoryUsageDB
\* One day is modelled: a key `${sessionId}_${today}` is named by its session;
\* OldKey is the key of a record of the same session dated OldAge days ago.

Services == {"image", "video", "avatar"}
Sessions == {"s1"}
\* days_to_keep of POST /usage/cleanup (the body's value is passed on as it
\* is; 30 when absent).
DefaultDaysToKeep == 30
CleanupArgs == {DefaultDaysToKeep, 0, -1}

OldKey == "s1_old"
OldAge == DefaultDaysToKeep + 10

\* usage.date as an age in days: today - usage.date.
KeyAge(key) == IF key = OldKey THEN OldAge ELSE 0

Requests == 1..MaxRequests

DAILY_LIMITS(type) ==
    CASE type = "image" -> LimitImage
      [] type = "video" -> LimitVideo
      [] type = "avatar" -> LimitAvatar

\* the usage record checkUsageLimit creates.
ZeroRow == [s \in Services |-> 0]

\* getCurrentCount
GetCurrentCount(usage, type) == usage[type]

\* mutant of CheckResult: a count equal to the limit is still allowed.
CheckResultInclusive(usage, type) ==
    [allowed |-> GetCurrentCount(usage, type) <= DAILY_LIMITS(type),
     current |-> GetCurrentCount(usage, type),
     limit |-> DAILY_LIMITS(type)]

\* the value checkUsageLimit returns for a usage record.
CheckResult(usage, type) ==
    [allowed |-> GetCurrentCount(usage, type) < DAILY_LIMITS(type),
     current |-> GetCurrentCount(usage, type),
     limit |-> DAILY_LIMITS(type)]

NoCheck == [allowed |-> FALSE, current |-> 0, limit |-> 0]

\* documents found on disk at start: today's row of the session as an
\* earlier run of the process persisted it.
PersistedRows ==
    {[ZeroRow EXCEPT !["image"] = n] : n \in {LimitImage - 1, LimitImage}}

\* the record of an earlier day as an earlier run persisted it.
OldRow == [ZeroRow EXCEPT !["image"] = 3]

\* session_usage.json as an earlier run left it: the old record, with or
\* without a record of today.
PersistedFiles ==
    {(OldKey :> OldRow)}
        \cup {(OldKey :> OldRow) @@ [k \in Sessions |-> row] : row \in PersistedRows}

\* locals of a call: `stale` when the record held in `usage` is no longer in
\* the live map (then `held` is that record), `incThrew` when incrementUsage
\* rejected.
\* no increment made yet by a request; no document serialised yet.
NoneProduced == 0
NoSnapshot == <<>>

IdleRequest == [pc |-> "idle", session |-> "s1", type |-> "image",
                check |-> NoCheck, stale |-> FALSE, held |-> ZeroRow,
                incThrew |-> FALSE, produced |-> NoneProduced,
                snap |-> NoSnapshot, ioFailed |-> FALSE]

LedgerInit ==
    /\ data = <<>>
    /\ loaded = FALSE
    /\ \/ fileExists = FALSE /\ file = <<>>
       \/ fileExists = TRUE /\ file \in PersistedFiles
    /\ req = [r \in Requests |-> IdleRequest]
    /\ cleanup = "idle"
    /\ atLimit = {}

\* the calls suspended in checkUsageLimit's saveData keep the record they
\* hold when the map D loses it (map replaced, or record deleted).
Detach(Q, D, lost) ==
    [r \in Requests |->
        IF /\ Q[r].pc \in {"check_saving", "inc_check_saving"}
           /\ ~Q[r].stale
           /\ Q[r].session \in lost
        THEN [Q[r] EXCEPT !.stale = TRUE, !.held = D[Q[r].session]]
        ELSE Q[r]]

\* loadData: readFile ends; on success the map is replaced by a new one.
LoadData ==
    /\ ~loaded
    /\ loaded' = TRUE
    /\ IF fileExists
       THEN /\ data' = file
            /\ req' = Detach(req, data, DOMAIN data)
       ELSE UNCHANGED <<data, req>>
    /\ UNCHANGED <<file, fileExists, cleanup, atLimit, taskVars, controllerVars, edgeVars>>

\* checkUsageLimit up to its first suspension: the map after the call.
CheckCreatesRow(D, key) == key \notin DOMAIN D

DataAfterCheck(D, key) ==
    IF CheckCreatesRow(D, key) THEN (key :> ZeroRow) @@ D ELSE D

\* the locals of a request after checkUsageLimit ran up to its first
\* suspension: awaiting saveData when the row was created, else returned.
RequestAfterCheckCall(D, q, savingPc, returnedPc) ==
    IF CheckCreatesRow(D, q.session)
    THEN [q EXCEPT !.pc = savingPc, !.stale = FALSE]
    ELSE [q EXCEPT !.pc = returnedPc,
                   !.check = CheckResult(D[q.session], q.type)]

\* generateImages / generateImageComposition: entry up to
\* `await sessionUsageDB.checkUsageLimit(...)`.
RequestStart(r) ==
    /\ req[r].pc = "idle"
    /\ data' = DataAfterCheck(data, req[r].session)
    /\ req' = [req EXCEPT ![r] =
                 RequestAfterCheckCall(data, @, "check_saving", "check_returned")]
    /\ atLimit' =
         IF /\ req[r].session \in DOMAIN data
            /\ GetCurrentCount(data[req[r].session], req[r].type)
                 = DAILY_LIMITS(req[r].type)
         THEN atLimit \cup {r} ELSE atLimit
    /\ UNCHANGED <<loaded, file, fileExists, cleanup, taskVars, controllerVars, edgeVars>>

\* the usage record a suspended checkUsageLimit holds in its local `usage`.
HeldUsage(q) ==
    IF q.stale THEN q.held ELSE data[q.session]

\* saveData of checkUsageLimit ends (the whole map is written), and
\* checkUsageLimit returns the counts of the record it holds.
CheckSaved(r, savingPc, returnedPc) ==
    /\ req[r].pc = savingPc
    /\ file' = data
    /\ fileExists' = TRUE
    /\ req' = [req EXCEPT ![r] =
                 [@ EXCEPT !.pc = returnedPc, !.stale = FALSE,
                           !.check = CheckResult(HeldUsage(req[r]), req[r].type)]]
    /\ UNCHANGED <<data, loaded, cleanup, atLimit, taskVars, controllerVars, edgeVars>>

\* after the await of checkUsageLimit: deny, or go on to generate (every
\* path of the generation contacts upstream first).
RequestAfterCheck(r) ==
    /\ req[r].pc = "check_returned"
    /\ req' = [req EXCEPT ![r].pc =
                 IF req[r].check.allowed THEN "generating" ELSE "denied"]
    /\ UNCHANGED <<data, loaded, file, fileExists, cleanup, atLimit, taskVars, controllerVars, edgeVars>>

\* mutant of GenerationFails: the usage is counted before the generation ends.
GenerationFailsAfterIncrement(r) ==
    /\ req[r].pc = "generating"
    /\ req[r].session \in DOMAIN data
    /\ data' = [data EXCEPT ![req[r].session][req[r].type] = @ + 1]
    /\ req' = [req EXCEPT ![r].pc = "failed"]
    /\ UNCHANGED <<loaded, file, fileExists, cleanup, atLimit, taskVars, controllerVars, edgeVars>>

\* the generation (upload, submit, poll, extraction) throws.
GenerationFails(r) ==
    /\ req[r].pc = "generating"
    /\ req' = [req EXCEPT ![r].pc = "failed"]
    /\ UNCHANGED <<data, loaded, file, fileExists, cleanup, atLimit, taskVars, controllerVars, edgeVars>>

\* the generation succeeded: incrementUsage is called and runs up to
\* `await this.checkUsageLimit(...)`.
GenerationSucceeds(r) ==
    /\ req[r].pc = "generating"
    /\ data' = DataAfterCheck(data, req[r].session)
    /\ req' = [req EXCEPT ![r] =
                 RequestAfterCheckCall(data, @, "inc_check_saving", "inc_check_returned")]
    /\ UNCHANGED <<loaded, file, fileExists, cleanup, atLimit, taskVars, controllerVars, edgeVars>>

\* incrementUsage: the map after the increment of a live record.
Incremented(D, key, type) ==
    IF key \in DOMAIN D THEN [D EXCEPT ![key][type] = @ + 1] ELSE D

\* mutant of IncrementAfterCheck: the rejection of incrementUsage is not
\* caught and the request fails.
IncrementAfterCheckRethrows(r) ==
    /\ req[r].pc = "inc_check_returned"
    /\ IF req[r].check.allowed
       THEN /\ data' = Incremented(data, req[r].session, req[r].type)
            /\ req' = [req EXCEPT ![r] =
                         IF req[r].session \in DOMAIN data
                         THEN [@ EXCEPT !.pc = "inc_saving",
                                        !.produced = data[req[r].session][req[r].type] + 1]
                         ELSE [@ EXCEPT !.pc = "done"]]
       ELSE /\ req' = [req EXCEPT ![r] = [@ EXCEPT !.pc = "failed", !.incThrew = TRUE]]
            /\ UNCHANGED data
    /\ UNCHANGED <<loaded, file, fileExists, cleanup, atLimit, taskVars, controllerVars, edgeVars>>

\* incrementUsage after its await: throw when not allowed (the controller
\* logs it and returns the result), else add one to the live record.
IncrementAfterCheck(r) ==
    /\ req[r].pc = "inc_check_returned"
    /\ IF req[r].check.allowed
       THEN /\ data' = Incremented(data, req[r].session, req[r].type)
            /\ req' = [req EXCEPT ![r] =
                         IF req[r].session \in DOMAIN data
                         THEN [@ EXCEPT !.pc = "inc_saving",
                                        !.produced = data[req[r].session][req[r].type] + 1]
                         ELSE [@ EXCEPT !.pc = "done"]]
       ELSE /\ req' = [req EXCEPT ![r] = [@ EXCEPT !.pc = "done", !.incThrew = TRUE]]
            /\ UNCHANGED data
    /\ UNCHANGED <<loaded, file, fileExists, cleanup, atLimit, taskVars, controllerVars, edgeVars>>

\* saveData of incrementUsage ends; generateImages returns the result.
IncrementSaved(r) ==
    /\ req[r].pc = "inc_saving"
    /\ file' = data
    /\ fileExists' = TRUE
    /\ req' = [req EXCEPT ![r].pc = "done"]
    /\ UNCHANGED <<data, loaded, cleanup, atLimit, taskVars, controllerVars, edgeVars>>

\* saveData of incrementUsage, `await fs.mkdir` ended: the map is serialised
\* and fs.writeFile is called.
SaveDataSnapshot(r) ==
    /\ req[r].pc = "inc_saving"
    /\ req' = [req EXCEPT ![r] = [@ EXCEPT !.pc = "inc_writing", !.snap = data]]
    /\ UNCHANGED <<data, loaded, file, fileExists, cleanup, atLimit, taskVars, controllerVars, edgeVars>>

\* saveData of incrementUsage, `await fs.writeFile` ended: the file holds the
\* document serialised by this call; incrementUsage and the request return.
SaveDataWritten(r) ==
    /\ req[r].pc = "inc_writing"
    /\ file' = req[r].snap
    /\ fileExists' = TRUE
    /\ req' = [req EXCEPT ![r].pc = "done"]
    /\ UNCHANGED <<data, loaded, cleanup, atLimit, taskVars, controllerVars, edgeVars>>

\* saveData of incrementUsage: fs.mkdir or fs.writeFile rejects; the catch
\* logs the error and saveData resolves, so the request returns its result.
SaveDataFails(r) ==
    /\ req[r].pc \in {"inc_saving", "inc_writing"}
    /\ req' = [req EXCEPT ![r] = [@ EXCEPT !.pc = "done", !.ioFailed = TRUE]]
    /\ UNCHANGED <<data, loaded, file, fileExists, cleanup, atLimit, taskVars, controllerVars, edgeVars>>

\* saveData of checkUsageLimit rejects inside: the catch logs the error and
\* checkUsageLimit returns the counts of the record it holds.
CheckSaveFails(r) ==
    /\ req[r].pc = "check_saving"
    /\ req' = [req EXCEPT ![r] =
                 [@ EXCEPT !.pc = "check_returned", !.stale = FALSE,
                           !.ioFailed = TRUE,
                           !.check = CheckResult(HeldUsage(req[r]), req[r].type)]]
    /\ UNCHANGED <<data, loaded, file, fileExists, cleanup, atLimit, taskVars, controllerVars, edgeVars>>

\* GET /usage/session/:sessionId -> getUsage: the counts read for a key
\* (zeros when there is no record).
SessionUsageCounts(D, key) == IF key \in DOMAIN D THEN D[key] ELSE ZeroRow

\* DAILY_LIMITS of the usage-limit middleware, also the numbers the usage
\* routes subtract the counts from.
ReportedLimitImage == 10
ReportedLimitVideo == 2
ReportedLimitAvatar == 1

ReportedLimit(type) ==
    CASE type = "image" -> ReportedLimitImage
      [] type = "video" -> ReportedLimitVideo
      [] type = "avatar" -> ReportedLimitAvatar

\* cleanupOldRecords: the keys of the records dated before the cutoff
\* (usage.date < today - daysToKeep).
KeysToDelete(D, daysToKeep) == {k \in DOMAIN D : KeyAge(k) > daysToKeep}

\* POST /usage/cleanup -> cleanupOldRecords up to `await this.saveData()`.
CleanupOldRecords(daysToKeep) ==
    /\ cleanup = "idle"
    /\ LET keysToDelete == KeysToDelete(data, daysToKeep)
       IN /\ data' = [k \in DOMAIN data \ keysToDelete |-> data[k]]
          /\ req' = Detach(req, data, keysToDelete)
          /\ cleanup' = IF keysToDelete # {} THEN "saving" ELSE "idle"
    /\ UNCHANGED <<loaded, file, fileExists, atLimit, taskVars, controllerVars, edgeVars>>

\* saveData of cleanupOldRecords ends.
CleanupSaved ==
    /\ cleanup = "saving"
    /\ file' = data
    /\ fileExists' = TRUE
    /\ cleanup' = "idle"
    /\ UNCHANGED <<data, loaded, req, atLimit, taskVars, controllerVars, edgeVars>>

CleanupNext ==
    \/ \E daysToKeep \in CleanupArgs : CleanupOldRecords(daysToKeep)
    \/ CleanupSaved

RequestNext ==
    \/ \E r \in Requests : RequestStart(r)
    \/ \E r \in Requests : CheckSaved(r, "check_saving", "check_returned")
    \/ \E r \in Requests : RequestAfterCheck(r)
    \/ \E r \in Requests : GenerationFails(r)
    \/ \E r \in Requests : GenerationSucceeds(r)
    \/ \E r \in Requests : CheckSaved(r, "inc_check_saving", "inc_check_returned")
    \/ \E r \in Requests : IncrementAfterCheck(r)
    \/ \E r \in Requests : IncrementSaved(r)

\* the ledger once loadData has ended.
LoadedNext ==
    \/ RequestNext
    \/ CleanupNext

LedgerNext ==
    \/ LoadData
    \/ LoadedNext

\* the ledger once loadData has ended: the live map holds what was persisted.
LedgerLoadedInit ==
    /\ loaded = TRUE
    /\ \/ fileExists = FALSE /\ file = <<>>
       \/ fileExists = TRUE /\ file \in PersistedFiles
    /\ data = file
    /\ req = [r \in Requests |-> IdleRequest]
    /\ cleanup = "idle"
    /\ atLimit = {}

\* ------------------------------------------- image uploader and controller

\* the user-facing model names: the default of the domestic map, the default
\* of the international map, and any other name.
DEFAULT_MODEL == "default_cn"
DEFAULT_MODEL_US == "default_us"
ModelNames == {DEFAULT_MODEL, DEFAULT_MODEL_US, "other"}

\* the keys IMAGE_MODEL_MAP and IMAGE_MODEL_MAP_US can have: each map holds
\* the default of its own region.
ModelMaps == {m \in SUBSET ModelNames : DEFAULT_MODEL \in m}
ModelMapsUS == {m \in SUBSET ModelNames : DEFAULT_MODEL_US \in m}

\* getModel: threw, or the user model the request goes on with.
GetModel(model, isInternational, cnMap, usMap) ==
    LET modelMap == IF isInternational THEN usMap ELSE cnMap
        defaultModel == IF isInternational THEN DEFAULT_MODEL_US ELSE DEFAULT_MODEL
    IN IF isInternational /\ model \notin modelMap
       THEN IF model = DEFAULT_MODEL
            THEN [threw |-> FALSE, userModel |-> defaultModel]
            ELSE [threw |-> TRUE, userModel |-> Undefined]
       ELSE [threw |-> FALSE,
             userModel |-> IF model \in modelMap THEN model ELSE defaultModel]

\* uploadImageBuffer: the retry limits, the waits before a retry and the
\* status of a committed image.
MaxRetries == 3
MaxCommitRetries == 3
RetryWaitMs == 2000
NetworkRetryWaitMs == 3000
UriStatusOk == 2000
NoUriStatus == 0
UriStatuses == {UriStatusOk, UriStatusOk + 1}

\* generateImageComposition: the pause between two uploads.
InterUploadPauseMs == 2000
NoTimer == 0

Images == 1..MaxImages

NoUpload == [pc |-> "none", applyAttempt |-> 0, uploadAttempt |-> 0,
             commitAttempt |-> 0, uriStatus |-> NoUriStatus,
             timer |-> NoTimer, waited |-> 0, uri |-> FALSE,
             error |-> Undefined]

ActiveUploadPcs == {"token", "apply", "put", "put_wait", "commit", "commit_wait"}

CompositionInputs ==
    [pc : {"idle"}, model : ModelNames, international : BOOLEAN,
     cnMap : ModelMaps, usMap : ModelMapsUS, imageCount : 0..MaxImages,
     userModel : {Undefined}, i : {0}, uploaded : {0}, pauses : {0},
     timer : {NoTimer}]

ControllerIdle ==
    /\ composition = [pc |-> "idle", model |-> DEFAULT_MODEL,
                      international |-> FALSE, cnMap |-> {DEFAULT_MODEL},
                      usMap |-> {DEFAULT_MODEL_US}, imageCount |-> 0,
                      userModel |-> Undefined, i |-> 0, uploaded |-> 0,
                      pauses |-> 0, timer |-> NoTimer]
    /\ uploads = [i \in Images |-> NoUpload]

CompositionInit ==
    /\ composition \in CompositionInputs
    /\ uploads = [i \in Images |-> NoUpload]

\* uploadImageBuffer is called and runs up to the await of the token request.
UploadCalled(U, i) == [U EXCEPT ![i] = [NoUpload EXCEPT !.pc = "token"]]

\* generateImageComposition: entry up to `await checkUsageLimit(...)`.
GenerateImageComposition ==
    /\ composition.pc = "idle"
    /\ LET c == composition
           m == GetModel(c.model, c.international, c.cnMap, c.usMap)
       IN composition' =
            IF c.imageCount = 0 THEN [c EXCEPT !.pc = "invalid"]
            ELSE IF m.threw THEN [c EXCEPT !.pc = "unsupported"]
            ELSE [c EXCEPT !.pc = "checking", !.userModel = m.userModel]
    /\ UNCHANGED <<uploads, taskVars, ledgerVars, edgeVars>>

\* checkUsageLimit returned: deny, or enter the upload loop with i = 0 (the
\* image at position 1) up to the first await of its upload.
UsageChecked(allowed) ==
    /\ composition.pc = "checking"
    /\ IF allowed
       THEN /\ composition' = [composition EXCEPT !.pc = "uploading", !.i = 1]
            /\ uploads' = UploadCalled(uploads, 1)
       ELSE /\ composition' = [composition EXCEPT !.pc = "denied"]
            /\ UNCHANGED uploads
    /\ UNCHANGED <<taskVars, ledgerVars, edgeVars>>

\* step 1, get_upload_token: the token, or a throw.
GetUploadToken(i, ok) ==
    /\ uploads[i].pc = "token"
    /\ uploads' = [uploads EXCEPT ![i] =
                     IF ok THEN [@ EXCEPT !.pc = "apply"]
                     ELSE [@ EXCEPT !.pc = "failed", !.error = "token"]]
    /\ UNCHANGED <<composition, taskVars, ledgerVars, edgeVars>>

ApplyOutcomes == {"ok", "fetch_error", "http_error", "metadata_error", "no_address"}

\* step 2, ApplyImageUpload: one fetch; every failure throws.
ApplyImageUpload(i, outcome) ==
    /\ uploads[i].pc = "apply"
    /\ uploads' = [uploads EXCEPT ![i] =
                     IF outcome = "ok"
                     THEN [@ EXCEPT !.pc = "put", !.applyAttempt = @ + 1]
                     ELSE [@ EXCEPT !.pc = "failed", !.applyAttempt = @ + 1,
                                    !.error = "apply"]]
    /\ UNCHANGED <<composition, taskVars, ledgerVars, edgeVars>>

PutOutcomes == {"ok", "http_error", "fetch_error"}

\* mutant of AfterPutAttempt: a rejected fetch is retried whatever the count.
AfterPutAttemptUnlimited(u, outcome) ==
    LET attempt == u.uploadAttempt + 1
        v == [u EXCEPT !.uploadAttempt = attempt, !.waited = 0]
    IN CASE outcome = "ok" -> [v EXCEPT !.pc = "commit"]
         [] outcome = "http_error" ->
              [v EXCEPT !.pc = "failed", !.error = "put_http"]
         [] outcome = "fetch_error" ->
              [v EXCEPT !.pc = "put_wait", !.timer = attempt * RetryWaitMs]

\* one turn of the while loop of step 3: a response leaves the loop (and a
\* response that is not ok throws after it); a rejected or aborted fetch
\* throws at the last attempt, else waits attempt * 2 s.
AfterPutAttempt(u, outcome) ==
    LET attempt == u.uploadAttempt + 1
        v == [u EXCEPT !.uploadAttempt = attempt, !.waited = 0]
    IN CASE outcome = "ok" -> [v EXCEPT !.pc = "commit"]
         [] outcome = "http_error" ->
              [v EXCEPT !.pc = "failed", !.error = "put_http"]
         [] outcome = "fetch_error" ->
              IF attempt >= MaxRetries
              THEN [v EXCEPT !.pc = "failed", !.error = "put_network"]
              ELSE [v EXCEPT !.pc = "put_wait", !.timer = attempt * RetryWaitMs]

\* step 3, the upload of the bytes.
PutAttempt(i, outcome) ==
    /\ uploads[i].pc = "put"
    /\ uploads[i].uploadAttempt < MaxRetries
    /\ uploads' = [uploads EXCEPT ![i] = AfterPutAttempt(@, outcome)]
    /\ UNCHANGED <<composition, taskVars, ledgerVars, edgeVars>>

\* the wait before a retry of step 3 ended.
PutRetryWaitElapsed(i) ==
    /\ uploads[i].pc = "put_wait"
    /\ uploads' = [uploads EXCEPT ![i] =
                     [@ EXCEPT !.pc = "put", !.timer = NoTimer,
                               !.waited = uploads[i].timer]]
    /\ UNCHANGED <<composition, taskVars, ledgerVars, edgeVars>>

\* the responses and rejections of the commit request.
CommitOutcomes ==
    [kind : {"ok"}, uriStatus : UriStatuses]
        \cup [kind : {"metadata_error", "no_results", "http_error",
                      "network_error", "other_error"},
              uriStatus : {NoUriStatus}]

\* mutant of CommitResult: the status of the committed image is not read.
CommitResultIgnoresUriStatus(u, outcome) ==
    CASE outcome.kind = "metadata_error" ->
           [u EXCEPT !.pc = "failed", !.error = "commit_metadata"]
      [] outcome.kind = "no_results" ->
           [u EXCEPT !.pc = "failed", !.error = "commit_no_results"]
      [] OTHER ->
           [u EXCEPT !.pc = "ok", !.uri = TRUE, !.uriStatus = outcome.uriStatus]

\* after the loop of step 4: the checks of the commit response.
CommitResult(u, outcome) ==
    CASE outcome.kind = "metadata_error" ->
           [u EXCEPT !.pc = "failed", !.error = "commit_metadata"]
      [] outcome.kind = "no_results" ->
           [u EXCEPT !.pc = "failed", !.error = "commit_no_results"]
      [] outcome.uriStatus # UriStatusOk ->
           [u EXCEPT !.pc = "failed", !.error = "uri_status",
                     !.uriStatus = outcome.uriStatus]
      [] OTHER ->
           [u EXCEPT !.pc = "ok", !.uri = TRUE, !.uriStatus = outcome.uriStatus]

\* one turn of the while loop of step 4: an ok response leaves the loop; an
\* HTTP error loops again at once and a rejected fetch waits attempt * 3 s
\* (network errors) or attempt * 2 s, both throwing at the last attempt.
AfterCommitAttempt(u, outcome) ==
    LET attempt == u.commitAttempt + 1
        v == [u EXCEPT !.commitAttempt = attempt, !.waited = 0]
    IN CASE outcome.kind \in {"ok", "metadata_error", "no_results"} ->
              CommitResult(v, outcome)
         [] attempt >= MaxCommitRetries ->
              [v EXCEPT !.pc = "failed", !.error = "commit_network"]
         [] outcome.kind = "http_error" -> v
         [] outcome.kind = "network_error" ->
              [v EXCEPT !.pc = "commit_wait", !.timer = attempt * NetworkRetryWaitMs]
         [] OTHER ->
              [v EXCEPT !.pc = "commit_wait", !.timer = attempt * RetryWaitMs]

\* step 4, CommitImageUpload.
CommitAttempt(i, outcome) ==
    /\ uploads[i].pc = "commit"
    /\ uploads[i].commitAttempt < MaxCommitRetries
    /\ uploads' = [uploads EXCEPT ![i] = AfterCommitAttempt(@, outcome)]
    /\ UNCHANGED <<composition, taskVars, ledgerVars, edgeVars>>

\* the wait before a retry of step 4 ended.
CommitRetryWaitElapsed(i) ==
    /\ uploads[i].pc = "commit_wait"
    /\ uploads' = [uploads EXCEPT ![i] =
                     [@ EXCEPT !.pc = "commit", !.timer = NoTimer,
                               !.waited = uploads[i].timer]]
    /\ UNCHANGED <<composition, taskVars, ledgerVars, edgeVars>>

\* mutant of UploadReturned: the next upload is called with no pause.
UploadReturnedWithoutPause ==
    /\ composition.pc = "uploading"
    /\ uploads[composition.i].pc = "ok"
    /\ LET c == [composition EXCEPT !.uploaded = @ + 1]
       IN IF c.i < c.imageCount
          THEN /\ composition' = [c EXCEPT !.i = @ + 1]
               /\ uploads' = UploadCalled([uploads EXCEPT ![c.i] = [NoUpload EXCEPT !.pc = "returned"]], c.i + 1)
          ELSE /\ composition' = [c EXCEPT !.pc = "submitting"]
               /\ uploads' = [uploads EXCEPT ![c.i] = [NoUpload EXCEPT !.pc = "returned"]]
    /\ UNCHANGED <<taskVars, ledgerVars, edgeVars>>

\* the await of one upload resumes: the id is pushed; a pause of 2 s is
\* started unless this was the last image.
UploadReturned ==
    /\ composition.pc = "uploading"
    /\ uploads[composition.i].pc = "ok"
    /\ LET c == [composition EXCEPT !.uploaded = @ + 1]
       IN composition' =
            IF c.i < c.imageCount
            THEN [c EXCEPT !.pc = "pausing", !.pauses = @ + 1,
                           !.timer = InterUploadPauseMs]
            ELSE [c EXCEPT !.pc = "submitting"]
    /\ uploads' = [uploads EXCEPT ![composition.i] = [NoUpload EXCEPT !.pc = "returned"]]
    /\ UNCHANGED <<taskVars, ledgerVars, edgeVars>>

\* the await of one upload throws: the request fails.
UploadThrew ==
    /\ composition.pc = "uploading"
    /\ uploads[composition.i].pc = "failed"
    /\ composition' = [composition EXCEPT !.pc = "upload_failed"]
    /\ uploads' = [uploads EXCEPT ![composition.i] = [NoUpload EXCEPT !.pc = "thrown"]]
    /\ UNCHANGED <<taskVars, ledgerVars, edgeVars>>

\* the pause ended: the next turn of the for loop calls the next upload.
PauseElapsed ==
    /\ composition.pc = "pausing"
    /\ composition' = [composition EXCEPT !.pc = "uploading", !.i = @ + 1,
                                           !.timer = NoTimer]
    /\ uploads' = UploadCalled(uploads, composition.i + 1)
    /\ UNCHANGED <<taskVars, ledgerVars, edgeVars>>

CompositionNext ==
    \/ GenerateImageComposition
    \/ \E allowed \in BOOLEAN : UsageChecked(allowed)
    \/ \E i \in Images, ok \in BOOLEAN : GetUploadToken(i, ok)
    \/ \E i \in Images, outcome \in ApplyOutcomes : ApplyImageUpload(i, outcome)
    \/ \E i \in Images, outcome \in PutOutcomes : PutAttempt(i, outcome)
    \/ \E i \in Images : PutRetryWaitElapsed(i)
    \/ \E i \in Images, outcome \in CommitOutcomes : CommitAttempt(i, outcome)
    \/ \E i \in Images : CommitRetryWaitElapsed(i)
    \/ UploadReturned
    \/ UploadThrew
    \/ PauseElapsed

\* the requests of a loaded ledger, with saveData followed through its two
\* awaits and with the rejections of the file system.
SaveNext ==
    \/ \E r \in Requests : RequestStart(r)
    \/ \E r \in Requests : CheckSaved(r, "check_saving", "check_returned")
    \/ \E r \in Requests : CheckSaveFails(r)
    \/ \E r \in Requests : RequestAfterCheck(r)
    \/ \E r \in Requests : GenerationSucceeds(r)
    \/ \E r \in Requests : IncrementAfterCheck(r)
    \/ \E r \in Requests : SaveDataSnapshot(r)
    \/ \E r \in Requests : SaveDataWritten(r)
    \/ \E r \in Requests : SaveDataFails(r)

\* the ledger at rest, for the specification of the task engine alone.
LedgerIdle ==
    /\ data = <<>>
    /\ loaded = FALSE
    /\ fileExists = FALSE
    /\ file = <<>>
    /\ req = [r \in Requests |-> IdleRequest]
    /\ cleanup = "idle"
    /\ atLimit = {}

\* the task engine at rest, for the specification of the ledger alone.
TaskIdle ==
    /\ TaskInit
    /\ maxConcurrentTasks = DefaultMaxConcurrent

\* ------------------------------------------- Cloudflare worker: rate limit
\* CONFIG.RATE_LIMIT
RateLimitRequests == 100
RateLimitWindow == 60
BlockDuration == 300

\* Seconds the clock advances in one step: half a window.
ClockStep == RateLimitWindow \div 2

\* requestCounts.get(clientId) of a client never seen; resetIn is
\* resetTime - now, in seconds.
NoCount == [present |-> FALSE, count |-> 0, resetIn |-> 0]

\* isRateLimited up to requestCounts.set: the entry it stores.
CountedRequest(entry) ==
    LET count == IF entry.present
                 THEN entry
                 ELSE [present |-> TRUE, count |-> 0, resetIn |-> RateLimitWindow]
    IN IF 0 > count.resetIn
       THEN [count EXCEPT !.count = 1, !.resetIn = RateLimitWindow]
       ELSE [count EXCEPT !.count = @ + 1]

\* isRateLimited's answer.
IsRateLimited(entry) == CountedRequest(entry).count > RateLimitRequests

\* what the client has seen: exceeded once the limiter has answered 429,
\* exceededAgo the seconds since its latest 429, last its latest answer.
NewClient == [exceeded |-> FALSE, exceededAgo |-> 0, last |-> "none"]

LimiterIdle ==
    /\ requestCounts = NoCount
    /\ client = NewClient

\* routeRequest from the rate limit check on: 429, or on to the proxy.
RouteRequest ==
    /\ requestCounts.count < RateLimitRequests + MaxOverLimit
          \/ requestCounts.resetIn < 0
    /\ requestCounts' = CountedRequest(requestCounts)
    /\ client' = IF IsRateLimited(requestCounts)
                 THEN [exceeded |-> TRUE, exceededAgo |-> 0, last |-> "limited"]
                 ELSE [client EXCEPT !.last = "allowed"]
    /\ UNCHANGED <<taskVars, ledgerVars, controllerVars, proxyVars, sessionVars>>

\* Date.now() moves on by ClockStep seconds.
ClockAdvances ==
    /\ requestCounts' =
          IF requestCounts.present /\ requestCounts.resetIn >= 0
          THEN [requestCounts EXCEPT !.resetIn = @ - ClockStep]
          ELSE requestCounts
    /\ client' =
          IF client.exceeded /\ client.exceededAgo <= BlockDuration
          THEN [client EXCEPT !.exceededAgo = @ + ClockStep]
          ELSE client
    /\ UNCHANGED <<taskVars, ledgerVars, controllerVars, proxyVars, sessionVars>>

RateLimitNext == RouteRequest \/ ClockAdvances

\* ------------------------------------------------ Cloudflare worker: proxy
\* CONFIG.RETRY.maxAttempts
MaxAttempts == 3

\* CONFIG.BACKEND_SERVERS by position: the first has region 'default', the
\* other two have region 'backup'.
BackendServers == 3
Primary == 1
Servers == 1..BackendServers

\* no server chosen yet.
NoServer == 0

\* serverHealth.get(url): no entry, isHealthy true, isHealthy false.
HealthStates == {"unknown", "healthy", "unhealthy"}

\* updateServerHealth
UpdateServerHealth(health, server, isHealthy) ==
    [health EXCEPT ![server] = IF isHealthy THEN "healthy" ELSE "unhealthy"]

\* selectBestServer: the servers it may return. Among healthy servers the
\* choice is by latency history or by a weighted random draw.
SelectBestServer(health) ==
    LET healthyServers == {server \in Servers : health[server] = "healthy"}
    IN IF healthyServers = {} THEN {Primary} ELSE healthyServers

\* `newRequest.url = ...`: Request.url has a getter only, so the assignment
\* throws a TypeError in strict code and is ignored otherwise; in neither
\* case does newRequest change.
UrlAssignmentOutcomes == {"throws", "ignored"}

\* server: the variable `server`; target: the server in newRequest's URL;
\* sent: the targets of the fetch calls made for this request, in order.
NoProxy ==
    [pc |-> "idle", attempt |-> 0, server |-> NoServer, target |-> NoServer,
     sent |-> <<>>, outcome |-> "none"]

ProxyIdle ==
    /\ serverHealth = [server \in Servers |-> "unknown"]
    /\ proxy = NoProxy

\* routeRequest's selectBestServer and proxyRequest up to the first fetch.
ProxyRequest ==
    /\ proxy.pc \in {"idle", "done"}
    /\ \E server \in SelectBestServer(serverHealth) :
          proxy' = [pc |-> "fetching", attempt |-> 1, server |-> server,
                    target |-> server, sent |-> <<server>>, outcome |-> "none"]
    /\ UNCHANGED <<serverHealth, taskVars, ledgerVars, controllerVars, limiterVars, sessionVars>>

\* fetch resolves: any response, a 5xx included, is returned to the client.
FetchResponds(ok) ==
    /\ proxy.pc = "fetching"
    /\ serverHealth' = UpdateServerHealth(serverHealth, proxy.server, ok)
    /\ proxy' = [proxy EXCEPT !.pc = "done",
                              !.outcome = IF ok THEN "response" ELSE "error_response"]
    /\ UNCHANGED <<taskVars, ledgerVars, controllerVars, limiterVars, sessionVars>>

\* fetch rejects (network error or the 30 s timeout): the catch block up to
\* the backoff wait, or out of the loop to `throw lastError`.
FetchThrows ==
    /\ proxy.pc = "fetching"
    /\ serverHealth' = UpdateServerHealth(serverHealth, proxy.server, FALSE)
    /\ proxy' = IF proxy.attempt < MaxAttempts
                THEN [proxy EXCEPT !.pc = "backoff"]
                ELSE [proxy EXCEPT !.pc = "done", !.outcome = "threw"]
    /\ UNCHANGED <<taskVars, ledgerVars, controllerVars, limiterVars, sessionVars>>

\* the backoff wait ends: selectBestServer again, the server switch, and the
\* next fetch(newRequest).
BackoffElapsed ==
    /\ proxy.pc = "backoff"
    /\ \E newServer \in SelectBestServer(serverHealth),
          assignment \in UrlAssignmentOutcomes :
          proxy' = IF newServer # proxy.server /\ assignment = "throws"
                   THEN [proxy EXCEPT !.pc = "done", !.server = newServer,
                                      !.outcome = "type_error"]
                   ELSE [proxy EXCEPT !.pc = "fetching", !.attempt = @ + 1,
                                      !.server = newServer,
                                      !.sent = Append(@, proxy.target)]
    /\ UNCHANGED <<serverHealth, taskVars, ledgerVars, controllerVars, limiterVars, sessionVars>>

\* scheduled: the health check of one server.
HealthCheck(server, ok) ==
    /\ serverHealth' = UpdateServerHealth(serverHealth, server, ok)
    /\ UNCHANGED <<proxy, taskVars, ledgerVars, controllerVars, limiterVars, sessionVars>>

ProxyNext ==
    \/ ProxyRequest
    \/ \E ok \in BOOLEAN : FetchResponds(ok)
    \/ FetchThrows
    \/ BackoffElapsed
    \/ \E server \in Servers, ok \in BOOLEAN : HealthCheck(server, ok)

\* --------------------------------------- Cloudflare worker: session manager
\* SessionManager.LIMITS
LIMITS(serviceType) ==
    CASE serviceType = "image" -> 10
      [] serviceType = "video" -> 2
      [] serviceType = "avatar" -> 1

ProxiedRequests == 1..MaxProxied

\* usage_count written by recordUsage's INSERT OR REPLACE.
RecordedUsageCount == 1

\* kv.get(cacheKey) of a key that is absent or has expired.
NoCachedUsage == [present |-> FALSE, usage |-> ZeroRow]

NoProxied == [pc |-> "idle", type |-> "image", usage |-> ZeroRow, usedBefore |-> 0]

SessionIdle ==
    /\ sessionUsage = ZeroRow
    /\ usageCache = NoCachedUsage
    /\ proxied = [r \in ProxiedRequests |-> NoProxied]
    /\ used = ZeroRow

\* the private canUseSession(usage, serviceType), the later of the two
\* methods of that name and so the one the class keeps.
CanUseSession(usage, serviceType) == usage[serviceType] < LIMITS(serviceType)

\* proxyRequestWithSession into getAvailableSession and getSessionUsage:
\* the cached usage is returned, or the rows of today are queried.
GetSessionUsage(r, serviceType) ==
    /\ proxied[r].pc = "idle"
    /\ used[serviceType] <= LIMITS(serviceType)
    /\ proxied' = [proxied EXCEPT ![r] =
          IF usageCache.present
          THEN [NoProxied EXCEPT !.pc = "usage_known", !.type = serviceType,
                                 !.usage = usageCache.usage]
          ELSE [NoProxied EXCEPT !.pc = "queried", !.type = serviceType,
                                 !.usage = sessionUsage]]
    /\ UNCHANGED <<sessionUsage, usageCache, used, taskVars, ledgerVars,
                   controllerVars, limiterVars, proxyVars>>

\* getSessionUsage: kv.put of the queried usage.
CacheSessionUsage(r) ==
    /\ proxied[r].pc = "queried"
    /\ usageCache' = [present |-> TRUE, usage |-> proxied[r].usage]
    /\ proxied' = [proxied EXCEPT ![r].pc = "usage_known"]
    /\ UNCHANGED <<sessionUsage, used, taskVars, ledgerVars, controllerVars,
                   limiterVars, proxyVars>>

\* getAvailableSession: the session is handed out if canUseSession holds;
\* otherwise the request is served by a session created for it.
GetAvailableSession(r) ==
    /\ proxied[r].pc = "usage_known"
    /\ proxied' = [proxied EXCEPT ![r] =
          IF CanUseSession(proxied[r].usage, proxied[r].type)
          THEN [@ EXCEPT !.pc = "assigned", !.usedBefore = used[proxied[r].type]]
          ELSE NoProxied]
    /\ UNCHANGED <<sessionUsage, usageCache, used, taskVars, ledgerVars,
                   controllerVars, limiterVars, proxyVars>>

\* the upstream answers the request sent with the session: a response below
\* 500 goes on to recordUsage, any other outcome records nothing.
SessionFetch(r, ok) ==
    /\ proxied[r].pc = "assigned"
    /\ proxied' = [proxied EXCEPT ![r] =
          IF ok THEN [@ EXCEPT !.pc = "recording"] ELSE NoProxied]
    /\ used' = IF ok THEN [used EXCEPT ![proxied[r].type] = @ + 1] ELSE used
    /\ UNCHANGED <<sessionUsage, usageCache, taskVars, ledgerVars,
                   controllerVars, limiterVars, proxyVars>>

\* recordUsage: INSERT OR REPLACE of the row (session, today, type) with
\* usage_count 1.
RecordUsage(r) ==
    /\ proxied[r].pc = "recording"
    /\ sessionUsage' = [sessionUsage EXCEPT ![proxied[r].type] = RecordedUsageCount]
    /\ proxied' = [proxied EXCEPT ![r].pc = "recorded"]
    /\ UNCHANGED <<usageCache, used, taskVars, ledgerVars, controllerVars,
                   limiterVars, proxyVars>>

\* updateUsageCache: kv.delete of the cached usage; the request is done.
UpdateUsageCache(r) ==
    /\ proxied[r].pc = "recorded"
    /\ usageCache' = NoCachedUsage
    /\ proxied' = [proxied EXCEPT ![r] = NoProxied]
    /\ UNCHANGED <<sessionUsage, used, taskVars, ledgerVars, controllerVars,
                   limiterVars, proxyVars>>

\* the cached usage expires (expirationTtl 300).
UsageCacheExpires ==
    /\ usageCache.present
    /\ usageCache' = NoCachedUsage
    /\ UNCHANGED <<sessionUsage, proxied, used, taskVars, ledgerVars,
                   controllerVars, limiterVars, proxyVars>>

SessionNext ==
    \/ \E r \in ProxiedRequests, serviceType \in Services : GetSessionUsage(r, serviceType)
    \/ \E r \in ProxiedRequests : CacheSessionUsage(r)
    \/ \E r \in ProxiedRequests : GetAvailableSession(r)
    \/ \E r \in ProxiedRequests, ok \in BOOLEAN : SessionFetch(r, ok)
    \/ \E r \in ProxiedRequests : RecordUsage(r)
    \/ \E r \in ProxiedRequests : UpdateUsageCache(r)
    \/ UsageCacheExpires

EdgeIdle == LimiterIdle /\ ProxyIdle /\ SessionIdle

Init == TaskInit /\ LedgerIdle /\ ControllerIdle /\ EdgeIdle

Next == TaskNext

\* the task engine: TaskManager and TaskProcessor.
Spec == Init /\ [][Next]_vars

\* the load scenario: ScenarioTasks image tasks submitted together to a
\* processor started with TASK_MAX_CONCURRENT = ScenarioConcurrency, whose
\* generations all succeed; the timeout armed by executeTask may fire before
\* a generation ends.
ScenarioTasks == 5
ScenarioConcurrency == 2
ScenarioIds == 1..ScenarioTasks
ImageTaskTypes == {"image_generation", "image_composition"}

ScenarioInit ==
    /\ \E type \in ImageTaskTypes :
          tasks = [i \in ScenarioIds |-> NewTask(type)]
    /\ taskTimeouts = {}
    /\ nextId = ScenarioTasks + 1
    /\ runningTasks = {}
    /\ maxConcurrentTasks = ScenarioConcurrency
    /\ worker = [i \in ScenarioIds |-> "none"]
    /\ started = [i \in ScenarioIds |-> 0]
    /\ cancelledPending = {}
    /\ cancelledRunning = {}
    /\ LedgerIdle
    /\ ControllerIdle
    /\ EdgeIdle

ScenarioNext ==
    \/ ProcessPendingTasks
    \/ \E id \in ScenarioIds, res \in WorkerResults : WorkerSucceed(id, res)
    \/ \E id \in ScenarioIds : TimeoutFires(id)

\* the tick of setInterval recurs, and while generations are under way one
\* of them ends.
ScenarioFairness ==
    /\ WF_vars(ProcessPendingTasks)
    /\ WF_vars(\E id \in ScenarioIds, res \in WorkerResults : WorkerSucceed(id, res))

ScenarioSpec == ScenarioInit /\ [][ScenarioNext]_vars /\ ScenarioFairness

\* the task engine with the clock and the reaper of the TaskManager.
ReaperNext ==
    \/ CreateTask("image_generation")
    \/ ProcessPendingTasks
    \/ \E id \in Ids, res \in WorkerResults : WorkerSucceed(id, res)
    \/ \E id \in Ids, msg \in WorkerMessages : WorkerFail(id, msg)
    \/ \E id \in Ids : CancelTask(id)
    \/ TimePasses
    \/ CleanupExpiredTasks

ReaperSpec == Init /\ [][ReaperNext]_vars

LedgerSpecInit == TaskIdle /\ LedgerInit /\ ControllerIdle /\ EdgeIdle

LedgerLoadedSpecInit == TaskIdle /\ LedgerLoadedInit /\ ControllerIdle /\ EdgeIdle

CompositionSpecInit == TaskIdle /\ LedgerIdle /\ CompositionInit /\ EdgeIdle

\* one composition request, from its entry to the end of its uploads.
CompositionSpec == CompositionSpecInit /\ [][CompositionNext]_vars

\* the quota ledger and the requests that consult it.
LedgerSpec ==
    LedgerSpecInit /\ [][LedgerNext]_vars

\* the quota ledger in steady state, after the load at start has ended.
SaveSpec == LedgerLoadedSpecInit /\ [][SaveNext]_vars

\* the worker's rate limiter serving one client.
RateLimitSpec == Init /\ [][RateLimitNext]_vars

\* the worker forwarding one request at a time while health checks run.
ProxySpec == Init /\ [][ProxyNext]_vars

\* the session manager serving concurrent requests from one pooled session.
SessionSpec == Init /\ [][SessionNext]_vars

LedgerLoadedSpec ==
    LedgerLoadedSpecInit /\ [][LoadedNext]_vars

\* ------------------------------------------------------------------ claims

\* tasks that the scheduler started and that are in status running.
RunningStarted ==
    {id \in DOMAIN tasks : tasks[id].status = Running /\ started[id] > 0}

\* C1: once a task's status is completed, failed or cancelled, no step
\* changes its status again for as long as the task is in the store.
C1_TerminalNeverTransitions ==
    [][\A id \in DOMAIN tasks :
          (tasks[id].status \in TerminalStatuses /\ id \in DOMAIN tasks')
              => tasks'[id].status = tasks[id].status]_vars

\* C2 (as claimed): at every moment the number of scheduler-started tasks in
\* status running is at most max_concurrency.
C2_RunningAtMostMax ==
    Cardinality(RunningStarted) <= maxConcurrentTasks

\* C2 (amended): a step never raises the number of scheduler-started running
\* tasks, nor the size of the running set, above the max_concurrency in
\* effect after the step; the count exceeds the cap only in steps that do
\* not raise it (setMaxConcurrentTasks lowering the cap under running tasks).
C2_AdmissionRespectsMax ==
    [][/\ (Cardinality(RunningStarted') > Cardinality(RunningStarted)
              => Cardinality(RunningStarted') <= maxConcurrentTasks')
       /\ (Cardinality(runningTasks') > Cardinality(runningTasks)
              => Cardinality(runningTasks') <= maxConcurrentTasks')]_vars

\* C2 witness: the cap binds: it is full and a pending task is waiting.
C2_Witness ==
    /\ Cardinality(RunningStarted) = maxConcurrentTasks
    /\ \E id \in DOMAIN tasks : tasks[id].status = Pending

\* C5: a task cancelled while pending is never admitted: executeTask is
\* never called for it, it is never in the running set and never running.
C5_CancelledPendingNeverAdmitted ==
    \A id \in cancelledPending :
        /\ started[id] = 0
        /\ worker[id] = "none"
        /\ id \notin runningTasks
        /\ id \in DOMAIN tasks => tasks[id].status # Running

\* C5 witness: a tick passed over a task cancelled while pending: a task
\* created later, of no higher priority, was admitted (had the cancelled task
\* still been pending at that tick it would have come first).
C5_Witness ==
    \E id \in cancelledPending, j \in DOMAIN tasks :
        /\ id \in DOMAIN tasks
        /\ j > id
        /\ started[j] = 1
        /\ tasks[id].priority >= tasks[j].priority

\* C6: a task cancelled while its worker was executing is never reported as
\* completed and never carries a result.
C6_CancelledRunningOutcomeDiscarded ==
    \A id \in cancelledRunning \cap DOMAIN tasks :
        /\ tasks[id].status # Completed
        /\ tasks[id].result = Undefined

\* C7: whenever a task's status is completed, its progress is 100.
C7_CompletedProgress100 ==
    \A id \in DOMAIN tasks :
        tasks[id].status = Completed => tasks[id].progress = 100

C9_CompletedHasResult ==
    \A id \in DOMAIN tasks :
        tasks[id].status = Completed => Truthy(tasks[id].result)

\* C9 witness: a worker has exited and its task is completed.
C9_Witness ==
    \E id \in DOMAIN tasks :
        tasks[id].status = Completed /\ worker[id] = "exited"

\* C10: once the timeout has marked the task of a hung worker failed, the
\* task's id has left the scheduler's running set.
C10_TimeoutReleasesSlot ==
    \A id \in DOMAIN tasks :
        (worker[id] = "hung" /\ id \notin taskTimeouts)
            => (tasks[id].status = Failed /\ id \notin runningTasks)

\* C11: cancel returns true exactly for a task that is pending or running,
\* and then the task is cancelled; for a task in a terminal state (completed,
\* failed or cancelled) it returns false and the task is left as it was.
C11_CancelTrueIffPendingOrRunning ==
    \A id \in DOMAIN tasks :
        /\ CancelAllowed(tasks, id) <=> tasks[id].status \in {Pending, Running}
        /\ CancelAllowed(tasks, id)
              => UpdateTaskStatus(tasks, id, Cancelled, NoExtra)[id].status = Cancelled
        /\ tasks[id].status \in TerminalStatuses => ~CancelAllowed(tasks, id)

\* C12: fetching the result of a cancelled task throws TaskNotCompleted.
C12_CancelledResultNotCompleted ==
    \A id \in DOMAIN tasks :
        tasks[id].status = Cancelled
            => GetTaskResult(tasks, id).throws = NotCompleted

\* C13: a step removes a task from the store only when the task is in a
\* terminal state: a pending or running task stays in the store.
C13_DeleteOnlyTerminal ==
    [][\A id \in DOMAIN tasks :
          tasks[id].status \in {Pending, Running} => id \in DOMAIN tasks']_vars

\* C13 witness: a task has been deleted while another task, pending or
\* running, is in the store.
C13_Witness ==
    /\ Cardinality(DOMAIN tasks) < nextId - 1
    /\ \E id \in DOMAIN tasks : tasks[id].status \in {Pending, Running}

\* C14: in a tick a pending task is started only if every pending task of
\* higher priority, or of equal priority and created earlier, is started in
\* the same tick.
C14_AdmittedInPriorityOrder ==
    [][\A i \in DOMAIN tasks, j \in DOMAIN tasks :
          (/\ started'[i] > started[i]
           /\ tasks[j].status = Pending
           /\ \/ tasks[j].priority > tasks[i].priority
              \/ (tasks[j].priority = tasks[i].priority /\ j < i))
              => started'[j] > started[j]]_vars

\* C14 witness: a tick with one free slot started a task of higher priority
\* and left a task created earlier, of lower priority, pending.
C14_Witness ==
    \E i \in DOMAIN tasks, j \in DOMAIN tasks :
        /\ i < j
        /\ tasks[j].priority > tasks[i].priority
        /\ started[j] = 1
        /\ started[i] = 0
        /\ tasks[i].status = Pending

\* C28: no step lowers the progress recorded for a task.
C28_ProgressMonotonic ==
    [][\A id \in DOMAIN tasks :
          id \in DOMAIN tasks' => tasks'[id].progress >= tasks[id].progress]_vars

\* C28 witness: a task's progress was written twice (10, then 90).
C28_Witness ==
    \E id \in DOMAIN tasks :
        tasks[id].progress = ProgressAlmostDone /\ started[id] = 1

\* C29: for every task with startedAt and completedAt both set, startedAt is
\* not later than completedAt.
C29_StartedBeforeCompleted ==
    \A id \in DOMAIN tasks :
        (tasks[id].startedAt # NoTime /\ tasks[id].completedAt # NoTime)
            => tasks[id].startedAt <= tasks[id].completedAt

\* C29 witness: a task has both times set, completedAt written twice (by the
\* timeout and by the worker).
C29_Witness ==
    \E id \in DOMAIN tasks :
        tasks[id].startedAt # NoTime /\ tasks[id].completedAt > tasks[id].startedAt + 1

\* C30: a step that deletes a task lowers the count of that task's status by
\* one and no other count; a step that creates a task raises the pending
\* count by one; and from every store, creating a task, moving it to a
\* terminal status and deleting it gives back the stats of that store.
C30_DeleteRestoresStats ==
    /\ [](\A type \in TaskTypes, st \in TerminalStatuses :
            LET created == (nextId :> NewTask(type)) @@ tasks
                ended == UpdateTaskStatus(created, nextId, st, NoExtra)
            IN GetTaskStats(StoreAfterDelete(ended, nextId)) = GetTaskStats(tasks))
    /\ [][/\ \A id \in DOMAIN tasks :
                id \notin DOMAIN tasks'
                    => \A s \in TaskStatuses :
                          GetTaskStats(tasks')[s]
                            = GetTaskStats(tasks)[s]
                                - (IF s = tasks[id].status THEN 1 ELSE 0)
          /\ nextId' # nextId
                => \A s \in TaskStatuses :
                      GetTaskStats(tasks')[s]
                        = GetTaskStats(tasks)[s] + (IF s = Pending THEN 1 ELSE 0)]_vars

\* C30 witness: a task was deleted while another task, in a terminal status,
\* stays in the store.
C30_Witness ==
    /\ Cardinality(DOMAIN tasks) < nextId - 1
    /\ \E id \in DOMAIN tasks : tasks[id].status \in TerminalStatuses

\* C27: in the load scenario a task leaves pending only in a tick that finds
\* a free slot, and then it is running; and eventually all the tasks are
\* completed.
C27_AllEventuallyCompleted ==
    /\ [][\A id \in DOMAIN tasks :
             (tasks[id].status = Pending /\ tasks'[id].status # Pending)
                 => /\ Cardinality(runningTasks) < ScenarioConcurrency
                    /\ tasks'[id].status = Running
                    /\ Cardinality(runningTasks') <= ScenarioConcurrency]_vars
    /\ <>[](\A id \in ScenarioIds : tasks[id].status = Completed)

\* C27 witness: a slot was freed and taken again: a task is completed, the
\* slots are all taken and a task is still pending.
C27_Witness ==
    /\ Cardinality({id \in DOMAIN tasks : tasks[id].status = Running})
         = ScenarioConcurrency
    /\ \E id \in DOMAIN tasks : tasks[id].status = Pending
    /\ \E id \in DOMAIN tasks : tasks[id].status = Completed
    /\ Cardinality(DOMAIN tasks) = ScenarioTasks

\* C21: once an increment has returned, and no write was rejected, the
\* persisted document holds a count at least as large as the one that
\* increment produced.
C21_CommittedIncrementPersisted ==
    \A r \in Requests :
        (/\ req[r].pc = "done"
         /\ req[r].produced # NoneProduced
         /\ \A q \in Requests : ~req[q].ioFailed)
            => /\ fileExists
               /\ req[r].session \in DOMAIN file
               /\ file[req[r].session][req[r].type] >= req[r].produced

\* C22: a request whose saveData met a storage error does not go on as if
\* the check or the increment had succeeded: it fails.
C22_StorageErrorSurfaces ==
    \A r \in Requests : req[r].ioFailed => req[r].pc = "failed"

\* C23: after getModel, a request whose model is not in the map of its
\* region goes on with the default of the region when the model is the
\* default of the other region, and has failed in every other case.
C23_UnsupportedModelFails ==
    LET c == composition
        modelMap == IF c.international THEN c.usMap ELSE c.cnMap
        defaultModel == IF c.international THEN DEFAULT_MODEL_US ELSE DEFAULT_MODEL
        otherDefault == IF c.international THEN DEFAULT_MODEL ELSE DEFAULT_MODEL_US
    IN (c.pc \notin {"idle", "invalid"} /\ c.model \notin modelMap)
          => IF c.model = otherDefault
             THEN c.pc # "unsupported" /\ c.userModel = defaultModel
             ELSE c.pc = "unsupported"

\* C24: in an upload the apply request is made at most once, the upload of
\* the bytes and the commit at most MaxRetries and MaxCommitRetries times,
\* and an upload whose attempts are used up is not about to make another.
C24_BoundedAttempts ==
    \A i \in Images :
        /\ uploads[i].applyAttempt <= 1
        /\ uploads[i].uploadAttempt <= MaxRetries
        /\ uploads[i].commitAttempt <= MaxCommitRetries
        /\ uploads[i].uploadAttempt = MaxRetries
              => uploads[i].pc \notin {"put", "put_wait"}
        /\ uploads[i].commitAttempt = MaxCommitRetries
              => uploads[i].pc \notin {"commit", "commit_wait"}

\* C24 witness: an upload ended after three uploads of the bytes and three
\* commits.
C24_Witness ==
    \E i \in Images :
        /\ uploads[i].uploadAttempt = MaxRetries
        /\ uploads[i].commitAttempt = MaxCommitRetries
        /\ uploads[i].applyAttempt = 1
        /\ uploads[i].pc \in {"ok", "failed"}

\* C25: an upload returns a URI only with UriStatus 2000, and a commit
\* response with another UriStatus makes the upload throw.
C25_UriOnlyWithStatusOk ==
    \A i \in Images :
        /\ uploads[i].uri => uploads[i].uriStatus = UriStatusOk
        /\ uploads[i].uriStatus \notin {NoUriStatus, UriStatusOk}
              => /\ ~uploads[i].uri
                 /\ uploads[i].pc = "failed"
                 /\ uploads[i].error = "uri_status"

\* C25 witness: a commit answered with a UriStatus that is not 2000.
C25_Witness ==
    \E i \in Images :
        /\ uploads[i].uriStatus \in UriStatuses \ {UriStatusOk}
        /\ uploads[i].pc = "failed"

\* C26: at most one upload is under way; the upload of image i + 1 is called
\* only when the upload of image i has returned and the pause of 2 s has
\* ended; a request with one image makes no pause, and a request that
\* uploaded all its images paused between each two.
C26_UploadsSequential ==
    /\ [](/\ Cardinality({i \in Images :
                             uploads[i].pc \in ActiveUploadPcs \cup {"ok", "failed"}}) <= 1
          /\ composition.imageCount <= 1 => composition.pauses = 0
          /\ composition.pc = "submitting"
                => composition.pauses = composition.imageCount - 1)
    /\ [][\A i \in Images :
             (i > 1 /\ uploads[i].pc = "none" /\ uploads'[i].pc # "none")
                 => /\ uploads[i - 1].pc = "returned"
                    /\ composition.pc = "pausing"
                    /\ composition.timer = InterUploadPauseMs]_vars

\* C26 witness: all the images of a request with several images are uploaded.
C26_Witness ==
    /\ composition.pc = "submitting"
    /\ composition.imageCount > 1
    /\ composition.uploaded = composition.imageCount

\* C36: no timeout is armed for a task in a terminal state.
C36_NoTimeoutOnTerminal ==
    \A id \in DOMAIN tasks :
        tasks[id].status \in TerminalStatuses => id \notin taskTimeouts

\* C37: the id of a worker that exited is not in the running set, and an id
\* in the running set has a worker that is still executing.
C37_RunningOnlyWhileExecuting ==
    \A id \in Ids :
        /\ worker[id] = "exited" => id \notin runningTasks
        /\ id \in runningTasks => worker[id] \in {"active", "hung"}

\* C37 witness: a worker exited by an exception while another task runs.
C37_Witness ==
    /\ \E id \in DOMAIN tasks :
          worker[id] = "exited" /\ tasks[id].status = Failed
                                /\ tasks[id].error \in WorkerMessages
    /\ runningTasks # {}

\* C38: no task is handed to executeTask a second time.
C38_StartedAtMostOnce ==
    \A id \in Ids : started[id] <= 1

\* C38 witness: a tick runs again after a started task has ended, been
\* cancelled or failed by its timeout.
C38_Witness ==
    \E id \in DOMAIN tasks :
        /\ started[id] = 1
        /\ worker[id] = "exited"
        /\ tasks[id].status = Failed
        /\ \E other \in DOMAIN tasks : other > id /\ started[other] = 1

\* C39: an upload that is about to repeat the upload of the bytes or the
\* commit has waited, since the attempt that failed, the number of that
\* attempt times 2 s or times 3 s.
C39_RetryAfterBackoff ==
    \A i \in Images :
        /\ (uploads[i].pc = "put" /\ uploads[i].uploadAttempt >= 1)
              => uploads[i].waited \in {uploads[i].uploadAttempt * RetryWaitMs,
                                        uploads[i].uploadAttempt * NetworkRetryWaitMs}
        /\ (uploads[i].pc = "commit" /\ uploads[i].commitAttempt >= 1)
              => uploads[i].waited \in {uploads[i].commitAttempt * RetryWaitMs,
                                        uploads[i].commitAttempt * NetworkRetryWaitMs}

\* C31: a task that leaves the store was in a terminal state and had been
\* in one for more than 24 hours.
C31_ReapsOnlyOldTerminal ==
    [][\A id \in DOMAIN tasks :
          id \notin DOMAIN tasks'
              => /\ tasks[id].status \in TerminalStatuses
                 /\ tasks[id].terminalAge > DayTicks]_vars

\* C31 witness: the reaper removed a task and kept a pending task that is
\* older than 24 hours.
C31_Witness ==
    /\ Cardinality(DOMAIN tasks) < nextId - 1
    /\ \E id \in DOMAIN tasks :
          tasks[id].status = Pending /\ tasks[id].updatedAge > DayTicks

\* C3: the stored count of every session and service is at most the
\* service's daily limit, in the live map and in the persisted document.
C3_CountWithinLimit ==
    /\ \A k \in DOMAIN data : \A s \in Services : data[k][s] <= DAILY_LIMITS(s)
    /\ \A k \in DOMAIN file : \A s \in Services : file[k][s] <= DAILY_LIMITS(s)

\* requests that have contacted upstream (they passed `generating`).
ContactedUpstream ==
    {r \in Requests : req[r].pc \in {"generating", "failed", "inc_check_saving",
                                     "inc_check_returned", "inc_saving",
                                     "inc_writing", "done"}}

\* C35: for a session and a service, the requests that passed the check and
\* contacted upstream are at most the daily limit minus the count at the
\* start (the live count less the increments made since).
C35_PassedWithinQuota ==
    \A s \in Sessions, type \in Services :
        LET passed == {r \in ContactedUpstream :
                          req[r].session = s /\ req[r].type = type}
            incremented == {r \in passed : req[r].produced # NoneProduced}
            current == SessionUsageCounts(data, s)[type]
            atStart == current - Cardinality(incremented)
        IN Cardinality(passed) <= DAILY_LIMITS(type) - atStart

\* C4: a request that begins when the live count of its session and service
\* equals the limit is denied without contacting upstream, and none of its
\* steps changes the ledger (live map or persisted document).
C4_DeniedAtLimit ==
    /\ [](\A r \in atLimit :
            /\ r \notin ContactedUpstream
            /\ req[r].pc \in {"check_returned", "denied"}
            /\ ~req[r].check.allowed)
    /\ [][\A r \in Requests :
            (r \in atLimit' /\ req'[r].pc # req[r].pc)
                => (data' = data /\ file' = file /\ fileExists' = fileExists)]_vars

\* C4 witness: a request that began at the limit has been denied.
C4_Witness ==
    \E r \in atLimit : req[r].pc = "denied"

\* requests whose call returned the generated URLs.
ReturnedResult == {r \in Requests : req[r].pc = "done"}

\* C15: the counts of a session change in no step of a request other than
\* the increment that follows a successful generation: a request whose
\* generation fails leaves them as they were.
C15_OnlySuccessIncrements ==
    [][\A r \in Requests :
          (req'[r].pc # req[r].pc /\ req[r].pc # "inc_check_returned")
              => \A k \in Sessions :
                    SessionUsageCounts(data', k) = SessionUsageCounts(data, k)]_vars

\* C15 witness: a generation has failed for a session that has a record.
C15_Witness ==
    \E r \in Requests :
        /\ req[r].pc = "failed"
        /\ req[r].session \in DOMAIN data
        /\ data[req[r].session][req[r].type] > 0

\* C16: a request whose ledger increment was rejected after its generation
\* succeeded still returns the generated URLs.
C16_IncrementFailureStillReturns ==
    \A r \in Requests : req[r].incThrew => r \in ReturnedResult

\* C16 witness: incrementUsage rejected and the request returned its result.
C16_Witness ==
    \E r \in ReturnedResult : req[r].incThrew

\* C17: no step lowers the stored count of a session and service of today.
C17_CountNeverDecreases ==
    [][\A k \in Sessions, s \in Services :
          SessionUsageCounts(data', k)[s] >= SessionUsageCounts(data, k)[s]]_vars

\* C18: when incrementUsage goes on after its check allowed it (it does not
\* reject), a read shows the service's count one higher than before and the
\* other two counts of the session unchanged.
C18_IncrementAddsOne ==
    [][\A r \in Requests :
          (/\ req[r].pc = "inc_check_returned"
           /\ req[r].check.allowed
           /\ req'[r].pc # req[r].pc)
              => \A s \in Services :
                    SessionUsageCounts(data', req[r].session)[s]
                      = SessionUsageCounts(data, req[r].session)[s]
                          + (IF s = req[r].type THEN 1 ELSE 0)]_vars

\* C19: the limits the ledger enforces are image 10, video 2 and avatar 1:
\* its check denies each service at that count.
C19_DefaultLimits ==
    /\ \A type \in Services :
          /\ DAILY_LIMITS(type) = ReportedLimit(type)
          /\ ~CheckResult([ZeroRow EXCEPT ![type] = ReportedLimit(type)], type).allowed
    /\ \A r \in Requests :
          req[r].pc = "check_returned"
              => /\ req[r].check.limit = ReportedLimit(req[r].type)
                 /\ req[r].check.current >= ReportedLimit(req[r].type)
                       => ~req[r].check.allowed

\* C20: no step of a check or an increment, before or after the load has
\* ended, lowers a persisted count of today, and no check returns a count
\* below the persisted one.
C20_PersistedCountsKept ==
    [][\A r \in Requests :
          req'[r].pc # req[r].pc
              => /\ \A k \in Sessions, s \in Services :
                       SessionUsageCounts(file', k)[s] >= SessionUsageCounts(file, k)[s]
                 /\ req'[r].pc \in {"check_returned", "inc_check_returned"}
                       => req'[r].check.current
                            >= SessionUsageCounts(file, req[r].session)[req[r].type]]_vars

\* C32: a client that has exceeded 100 requests in a 60-second window is
\* answered 429 on every request of the following 300 seconds
\* (blockDuration): while at most 300 seconds have passed since its latest
\* 429, its latest answer is not a forwarded request.
C32_BlockedForBlockDuration ==
    (client.exceeded /\ client.exceededAgo <= BlockDuration)
        => client.last # "allowed"

\* C33: after the request to the primary backend server has failed, the
\* next attempt goes to a backup server, and one client request is
\* forwarded at most 3 times.
C33_FailoverWithinThreeForwards ==
    /\ Len(proxy.sent) <= MaxAttempts
    /\ \A k \in 2..Len(proxy.sent) :
          proxy.sent[k - 1] = Primary => proxy.sent[k] # Primary


\* C34: the session manager hands a session to a request of a service type
\* only while the session has served that type fewer than 10 (image),
\* 2 (video) or 1 (avatar) times today.
C34_AssignedBelowLimit ==
    \A r \in ProxiedRequests :
        proxied[r].pc = "assigned"
            => proxied[r].usedBefore < LIMITS(proxied[r].type)
====
